---- MODULE Spec2Model ----
(***************************************************************************)
(* Pilot State Machine: the request handlers of the serverless API         *)
(* (src/unnamed/part_000, the handler with insert-fallback and the         *)
(* Side-Effect Dispatcher) over a PostgreSQL database and an SNS topic.    *)
(*                                                                         *)
(* A request runs in a slot p.  Everything a handler does between two      *)
(* awaits is one step; every db.query is one statement, executed           *)
(* atomically by the database, so requests interleave statement by         *)
(* statement.  A step of the model is: the database executes the awaited   *)
(* statement (or the driver raises), and the handler runs on to its next   *)
(* await or to its return.                                                 *)
(***************************************************************************)
EXTENDS Integers, Sequences, FiniteSets, TLC

\* Number of request slots (requests in flight at the same time).
NumProcs == 2

Procs == 1..NumProcs

VARIABLES
  state_machine_state, \* rows of the key-value table: sequence of [key, value]
  tables,              \* tables[t]: rows of entity table t: sequence of [kit_id, cols]
  uniqueKitId,         \* whether the entity tables declare kit_id unique
  ROUTER_TOPIC_ARN,    \* whether process.env.ROUTER_TOPIC_ARN is set
  published,           \* published[k]: send_pdf_email notifications delivered for kit_id k
  pc,                  \* pc[p]: where request p is (the await it is suspended at)
  handler,             \* handler[p]: the exported handler request p runs
  event,               \* event[p]: the event request p was invoked with
  held,                \* held[p]: updateActions/updateConsents' `result` while the dispatcher runs
  result,              \* result[p]: what the handler returned or threw
  sql,                 \* sql[p]: the statements request p has sent to the database
  sent,                \* sent[p]: notifications request p has published
  loc,                 \* loc[p]: the locals of webhookActions in request p
  seen,                \* history: lastWrite of its key when getState's SELECT ran
  preRows,             \* history: rows of its kit_id in its table when an update was invoked
  calls,               \* history: calls[p]: the kit_ids maybeSendPdfEmail was called with
  observed,            \* history: the readiness conditions that held in the tables when
                       \* the dispatcher of request p read them
  before,              \* history: before[p]: the rows of its kit_id in its table when
                       \* request p was invoked
  raised,              \* history: the error the driver (its code) or the publish
                       \* ("PublishError") raised for request p, "" for none
  lastWrite            \* history: lastWrite[k] is the value of the latest upsert of key k

vars == <<state_machine_state, tables, uniqueKitId, ROUTER_TOPIC_ARN, published,
          pc, handler, event, held, result, sql, sent, loc, seen, preRows, calls, observed,
          before, raised, lastWrite>>

(***************************************************************************)
(* JavaScript values: a type tag (what typeof and the === tests see) and   *)
(* a printed form.                                                         *)
(***************************************************************************)
JsUndefined == [t |-> "undefined", v |-> "undefined"]

JsNull == [t |-> "null", v |-> "null"]

JsNaN == [t |-> "number", v |-> "NaN"]

JsTrue == [t |-> "boolean", v |-> "true"]

JsFalse == [t |-> "boolean", v |-> "false"]

JsStr(s) == [t |-> "string", v |-> s]

JsNum(s) == [t |-> "number", v |-> s]

\* typeof x === 'string'
IsString(x) == x.t = "string"

\* !x is false: x is none of undefined, null, false, 0, NaN, ""
Truthy(x) ==
  /\ x.t \notin {"undefined", "null"}
  /\ ~(x.t = "string" /\ x.v = "")
  /\ ~(x.t = "number" /\ x.v \in {"0", "NaN"})
  /\ ~(x.t = "boolean" /\ x.v = "false")

\* body.field: undefined when the object has no such property
Get(obj, k) == IF k \in DOMAIN obj THEN obj[k] ELSE JsUndefined

\* JSON.stringify(value): NaN and undefined have no JSON form and print as null
JSONstringify(x) ==
  IF x.t = "undefined" \/ (x.t = "number" /\ x.v = "NaN")
  THEN <<"json", "null", "null">>
  ELSE <<"json", x.t, x.v>>

\* what the driver hands back for a jsonb column: the parsed JSON text
ParseJsonb(text) == [t |-> text[2], v |-> text[3]]

(***************************************************************************)
(* Events.  event.body is a string that does not parse ("invalid"), the    *)
(* JSON text null ("null"), or an object ("object", with its properties).  *)
(***************************************************************************)
Event(kind, q, obj) == [kind |-> kind, q |-> q, body |-> obj]

NoEvent == Event("object", JsUndefined, <<>>)

\* typeof event.body === 'string' ? JSON.parse(event.body) : event.body || {}
\* in updateState: "invalid" makes JSON.parse throw, "null" parses to null
BodyParses(e) == e.kind # "invalid"

\* parseJsonBody(event): null when JSON.parse throws or gives null
parseJsonBody(e) ==
  IF e.kind = "object" THEN [null |-> FALSE, obj |-> e.body] ELSE [null |-> TRUE, obj |-> <<>>]

(***************************************************************************)
(* Results of a handler: a response (jsonResponse) or a thrown error.      *)
(***************************************************************************)
NoResult ==
  [kind |-> "none", statusCode |-> 0, error |-> "", ok |-> FALSE, code |-> "",
   key |-> JsUndefined, value |-> JsUndefined, updated |-> 0, created |-> FALSE,
   rows |-> <<>>]

jsonResponse(statusCode, error) ==
  [NoResult EXCEPT !.kind = "response", !.statusCode = statusCode, !.error = error]

Thrown(code) == [NoResult EXCEPT !.kind = "throw", !.code = code]

(***************************************************************************)
(* Driver errors the handlers tell apart, and two they do not.             *)
(***************************************************************************)
ConnectionErrors == {"ECONNREFUSED", "ENOTFOUND"}

TypeErrors == {"22P02", "42804", "23502"}

DriverErrors == ConnectionErrors \cup TypeErrors \cup {"42P01", "57014"}

(***************************************************************************)
(* The key-value table.                                                    *)
(***************************************************************************)
Keys == {"my-key", "other-key"}

NotWritten == [t |-> "none", v |-> "none"]

\* SELECT key, value, updated_at FROM state_machine_state WHERE key = $1
SelectState(rows, key) == SelectSeq(rows, LAMBDA r : r.key = key)

\* a plain INSERT where the upsert should be: a second row for the key
InsertStateOnly(rows, key, text) == Append(rows, [key |-> key, value |-> text])

\* ON CONFLICT (key) DO NOTHING where DO UPDATE should be
UpsertDoNothing(rows, key, text) ==
  IF \E i \in DOMAIN rows : rows[i].key = key
  THEN rows
  ELSE Append(rows, [key |-> key, value |-> text])

\* INSERT ... VALUES ($1, $2::jsonb, now())
\*   ON CONFLICT (key) DO UPDATE SET value = $2::jsonb, updated_at = now()
UpsertState(rows, key, text) ==
  IF \E i \in DOMAIN rows : rows[i].key = key
  THEN [i \in DOMAIN rows |->
          IF rows[i].key = key THEN [key |-> key, value |-> text] ELSE rows[i]]
  ELSE Append(rows, [key |-> key, value |-> text])

\* the catch block of getState and updateState
StateCatch(code) ==
  IF code \in ConnectionErrors THEN jsonResponse(500, "Database connection failed")
  ELSE IF code = "42P01" THEN jsonResponse(500, "State table missing")
  ELSE Thrown(code)

(***************************************************************************)
(* The entity tables.  The repository declares no schema for them; the     *)
(* columns are those the handlers and the README name, typed as the        *)
(* dispatcher and the webhook use them.                                    *)
(***************************************************************************)
TABLES == {"actions", "users", "reports", "kits", "consents"}

KitIds == {"abc-123", "xyz-789"}

ColumnsOf(t) ==
  CASE t = "actions" -> {"appointment_made", "pdf_email_sent"}
    [] t = "consents" -> {"toc_agreed"}
    [] t = "users" -> {"email"}
    [] OTHER -> {"status"}

ColType(c) ==
  IF c \in {"appointment_made", "pdf_email_sent", "toc_agreed"} THEN "boolean" ELSE "text"

\* the characters of the property names requests carry
Chars(name) ==
  CASE name = "appointment_made" ->
         <<"a","p","p","o","i","n","t","m","e","n","t","_","m","a","d","e">>
    [] name = "pdf_email_sent" ->
         <<"p","d","f","_","e","m","a","i","l","_","s","e","n","t">>
    [] name = "toc_agreed" -> <<"t","o","c","_","a","g","r","e","e","d">>
    [] name = "email" -> <<"e","m","a","i","l">>
    [] name = "status" -> <<"s","t","a","t","u","s">>
    [] name = "score" -> <<"s","c","o","r","e">>
    [] name = "kit_id" -> <<"k","i","t","_","i","d">>
    [] name = "_col2" -> <<"_","c","o","l","2">>
    [] name = "1bad" -> <<"1","b","a","d">>
    [] name = "drop;table" -> <<"d","r","o","p",";","t","a","b","l","e">>
    [] name = "Status-2" -> <<"S","t","a","t","u","s","-","2">>
    [] OTHER -> <<>>

Letters ==
  {"a","b","c","d","e","f","g","h","i","j","k","l","m","n","o","p","q","r","s","t",
   "u","v","w","x","y","z","A","B","C","D","E","F","G","H","I","J","K","L","M","N",
   "O","P","Q","R","S","T","U","V","W","X","Y","Z"}

Digits == {"0","1","2","3","4","5","6","7","8","9"}

\* a column test that forgets the anchor on the first character: [a-zA-Z0-9_]+
SAFE_COLUMN_AnyFirst(k) ==
  /\ Len(Chars(k)) >= 1
  /\ \A i \in 1..Len(Chars(k)) : Chars(k)[i] \in Letters \cup Digits \cup {"_"}

\* SAFE_COLUMN.test(k), SAFE_COLUMN = /^[a-zA-Z_][a-zA-Z0-9_]*$/
SAFE_COLUMN(k) ==
  /\ Len(Chars(k)) >= 1
  /\ Chars(k)[1] \in Letters \cup {"_"}
  /\ \A i \in 2..Len(Chars(k)) : Chars(k)[i] \in Letters \cup Digits \cup {"_"}

\* const updates = { ...body }; delete updates.kit_id
Updates(body) == [k \in DOMAIN body \ {"kit_id"} |-> body[k]]

\* Object.keys(updates).filter((k) => SAFE_COLUMN.test(k))
Columns(body) == {k \in DOMAIN Updates(body) : SAFE_COLUMN(k)}

\* a value test that also turns null away
InvalidValue_NoNull(x) == x.t \in {"undefined", "null"} \/ (x.t = "number" /\ x.v = "NaN")

\* updates[c] === undefined || Number.isNaN(updates[c])
InvalidValue(x) == x.t = "undefined" \/ (x.t = "number" /\ x.v = "NaN")

\* columns.filter((c) => updates[c] === undefined || Number.isNaN(updates[c]))
InvalidValues(body) == {c \in Columns(body) : InvalidValue(Updates(body)[c])}

\* whether PostgreSQL takes parameter x for a column of the type
Accepts(type, x) ==
  \/ x.t = "null"
  \/ type = "text"
  \/ type = "boolean" /\ (x.t = "boolean" \/ (x.t = "string" /\ x.v \in {"true", "false"}))

\* the value the column then holds, as the driver reads it back
Stored(type, x) ==
  IF x.t = "null" THEN JsNull
  ELSE IF type = "boolean" THEN (IF x.v = "true" THEN JsTrue ELSE JsFalse)
  ELSE JsStr(x.v)

\* the error a statement on table t with these parameters raises, "" for none:
\* 42703 for a column the table lacks, 22P02 for a value the column's type rejects
StatementError(t, body) ==
  IF \E c \in Columns(body) : c \notin ColumnsOf(t) THEN "42703"
  ELSE IF \E c \in Columns(body) : ~Accepts(ColType(c), body[c]) THEN "22P02"
  ELSE ""

\* SELECT * FROM t WHERE kit_id = $1
RowsOf(rows, kit) == SelectSeq(rows, LAMBDA r : r.kit_id = kit)

\* an UPDATE that clears the columns it does not name
UpdateRows_ClearsOthers(rows, kit, body) ==
  [i \in DOMAIN rows |->
     IF rows[i].kit_id = kit
     THEN [rows[i] EXCEPT !.cols =
             [c \in DOMAIN @ |->
                IF c \in Columns(body) THEN Stored(ColType(c), body[c]) ELSE JsNull]]
     ELSE rows[i]]

\* an UPDATE without its WHERE clause
UpdateRows_NoWhere(rows, kit, body) ==
  [i \in DOMAIN rows |->
     [rows[i] EXCEPT !.cols =
        [c \in DOMAIN @ |->
           IF c \in Columns(body) THEN Stored(ColType(c), body[c]) ELSE @[c]]]]

\* UPDATE t SET c = $i, ... WHERE kit_id = $1
UpdateRows(rows, kit, body) ==
  [i \in DOMAIN rows |->
     IF rows[i].kit_id = kit
     THEN [rows[i] EXCEPT !.cols =
             [c \in DOMAIN @ |->
                IF c \in Columns(body) THEN Stored(ColType(c), body[c]) ELSE @[c]]]
     ELSE rows[i]]

\* INSERT INTO t (kit_id, c, ...) VALUES ($1, $i, ...)
InsertRow(rows, t, kit, body) ==
  Append(rows,
         [kit_id |-> kit,
          cols |-> [c \in ColumnsOf(t) |->
                      IF c \in Columns(body) THEN Stored(ColType(c), body[c]) ELSE JsNull]])

(***************************************************************************)
(* The handlers, segment by segment.  A segment is what a handler does     *)
(* from one await to the next: where it suspends next (pc, "done" when it  *)
(* returned or threw), its result, the response updateActions and          *)
(* updateConsents hold while the dispatcher runs, and the statements it    *)
(* sends.                                                                  *)
(***************************************************************************)
STATE_TABLE == "state_machine_state"

Stmt(op, t, cols) == [op |-> op, table |-> t, columns |-> cols]

Seg(at, res, hold, send) ==
  [pc |-> at, result |-> res, held |-> hold, send |-> send, call |-> <<>>]

\* the segment seg, entered by calling maybeSendPdfEmail(db, kit)
Call(seg, kit) == [seg EXCEPT !.call = <<kit>>]

Return(res) == Seg("done", res, NoResult, <<>>)

ListHandlers ==
  {"getActionsByKitId", "getUsersByKitId", "getReportsByKitId", "getKitsByKitId",
   "getConsentsByKitId"}

UpdateHandlers ==
  {"updateActions", "updateUsers", "updateReports", "updateKits", "updateConsents"}

\* the table each exported handler is bound to
TableOf(h) ==
  CASE h \in {"getActionsByKitId", "updateActions", "webhookActions"} -> "actions"
    [] h \in {"getUsersByKitId", "updateUsers"} -> "users"
    [] h \in {"getReportsByKitId", "updateReports"} -> "reports"
    [] h \in {"getKitsByKitId", "updateKits"} -> "kits"
    [] h \in {"getConsentsByKitId", "updateConsents"} -> "consents"
    [] OTHER -> STATE_TABLE

\* getState up to its SELECT
getStateBegin(e) ==
  IF ~Truthy(e.q) \/ ~IsString(e.q)
  THEN Return(jsonResponse(400, "Query parameter key is required"))
  ELSE Seg("select_state", NoResult, NoResult, <<Stmt("SELECT", STATE_TABLE, {})>>)

\* a row-count test that is off by one: result.rows.length <= 1
getStateEnd_OffByOne(key, rows) ==
  IF Len(rows) <= 1
  THEN [jsonResponse(404, "Not found") EXCEPT !.key = JsStr(key)]
  ELSE [jsonResponse(200, "") EXCEPT !.key = JsStr(rows[1].key),
                                      !.value = ParseJsonb(rows[1].value)]

\* getState after its SELECT
getStateEnd(key, rows) ==
  IF Len(rows) = 0
  THEN [jsonResponse(404, "Not found") EXCEPT !.key = JsStr(key)]
  ELSE [jsonResponse(200, "") EXCEPT !.key = JsStr(rows[1].key),
                                      !.value = ParseJsonb(rows[1].value)]

\* body.value !== undefined ? body.value : null
ValueOf(body) == IF Get(body, "value") # JsUndefined THEN Get(body, "value") ELSE JsNull

\* updateState up to its upsert; body.key of a null body is a TypeError
updateStateBegin(e) ==
  IF ~BodyParses(e) THEN Return(jsonResponse(400, "Request body must be valid JSON"))
  ELSE IF e.kind = "null" THEN Return(Thrown("TypeError"))
  ELSE IF ~Truthy(Get(e.body, "key")) \/ ~IsString(Get(e.body, "key"))
  THEN Return(jsonResponse(400, "key is required and must be a string"))
  ELSE Seg("upsert", NoResult, NoResult, <<Stmt("UPSERT", STATE_TABLE, {"value"})>>)

\* updateState after its upsert
updateStateEnd(body) ==
  [jsonResponse(200, "") EXCEPT !.ok = TRUE, !.key = body["key"], !.value = ValueOf(body)]

\* getByKitId up to its SELECT
getByKitIdBegin(t, e) ==
  IF parseJsonBody(e).null THEN Return(jsonResponse(400, "Request body must be valid JSON"))
  ELSE IF ~Truthy(Get(e.body, "kit_id")) \/ ~IsString(Get(e.body, "kit_id"))
  THEN Return(jsonResponse(400, "kit_id is required and must be a string"))
  ELSE Seg("select", NoResult, NoResult, <<Stmt("SELECT", t, {})>>)

\* a list that answers 404 when no row matches
getByKitIdEnd_NotFound(kit, rows) ==
  IF Len(rows) = 0 THEN [jsonResponse(404, "Not found") EXCEPT !.key = JsStr(kit)]
  ELSE [jsonResponse(200, "") EXCEPT !.key = JsStr(kit), !.rows = rows]

\* getByKitId after its SELECT
getByKitIdEnd(kit, rows) ==
  [jsonResponse(200, "") EXCEPT !.key = JsStr(kit), !.rows = rows]

\* the catch block of getByKitId
ListCatch(code) ==
  IF code \in ConnectionErrors THEN jsonResponse(500, "Database connection failed")
  ELSE IF code = "42P01" THEN jsonResponse(500, "Table not found")
  ELSE Thrown(code)

\* updateByKitId up to its UPDATE
updateByKitIdBegin(t, e) ==
  IF parseJsonBody(e).null THEN Return(jsonResponse(400, "Request body must be valid JSON"))
  ELSE IF ~Truthy(Get(e.body, "kit_id")) \/ ~IsString(Get(e.body, "kit_id"))
  THEN Return(jsonResponse(400, "kit_id is required and must be a string"))
  ELSE IF Columns(e.body) = {}
  THEN Return(jsonResponse(400, "Send at least one field to update"))
  ELSE IF InvalidValues(e.body) # {}
  THEN Return(jsonResponse(400, "Invalid values for fields"))
  ELSE Seg("update", NoResult, NoResult, <<Stmt("UPDATE", t, Columns(e.body))>>)

\* jsonResponse(200, { ok: true, kit_id: kitId, updated: result.rowCount, created })
UpdateOk(kit, rowCount, created) ==
  [jsonResponse(200, "") EXCEPT !.ok = TRUE, !.key = JsStr(kit), !.updated = rowCount,
                                 !.created = created]

\* the catch block of updateByKitId
UpdateCatch(code) ==
  IF code \in ConnectionErrors THEN jsonResponse(500, "Database connection failed")
  ELSE IF code \in TypeErrors THEN jsonResponse(400, "Invalid field type or value for update")
  ELSE IF code = "42P01" THEN jsonResponse(500, "Table not found")
  ELSE Thrown(code)

\* handlers of which only those of actions call the dispatcher
TriggerOf_ActionsOnly(h) ==
  IF h \in {"updateActions", "webhookActions"} THEN "appointment_made" ELSE ""

\* the field whose truthy value makes the handler call the dispatcher
TriggerOf(h) ==
  CASE h \in {"updateActions", "webhookActions"} -> "appointment_made"
    [] h = "updateConsents" -> "toc_agreed"
    [] OTHER -> ""

\* if (body?.appointment_made && body?.kit_id), if (body?.toc_agreed && body?.kit_id)
Triggers(h, e) ==
  /\ TriggerOf(h) # ""
  /\ ~parseJsonBody(e).null
  /\ Truthy(Get(e.body, TriggerOf(h)))
  /\ Truthy(Get(e.body, "kit_id"))

\* maybeSendPdfEmail up to its first SELECT, res being what the handler will return
maybeSendPdfEmailBegin(topic, res) ==
  IF ~topic THEN Return(res)
  ELSE Seg("mspe_user", NoResult, res, <<Stmt("SELECT", "users", {})>>)

\* a handler that calls the dispatcher after every update that returned 200
AfterUpdate_Always(h, e, topic, res) ==
  Call(maybeSendPdfEmailBegin(topic, res), e.body["kit_id"].v)

\* what follows updateByKitId's 200 in updateActions, updateConsents and the others
AfterUpdate(h, e, topic, res) ==
  IF Triggers(h, e)
  THEN Call(maybeSendPdfEmailBegin(topic, res), e.body["kit_id"].v)
  ELSE Return(res)

\* an update that answers 404 when no row matched, as the older handler.js does
updateByKitIdUpdated_NoFallback(h, e, topic, t, kit, rowCount) ==
  IF rowCount = 0
  THEN Return(jsonResponse(404, "No rows updated for kit_id"))
  ELSE AfterUpdate(h, e, topic, UpdateOk(kit, rowCount, FALSE))

\* updateByKitId after its UPDATE: the INSERT when no row matched
updateByKitIdUpdated(h, e, topic, t, kit, rowCount) ==
  IF rowCount = 0
  THEN Seg("insert", NoResult, NoResult, <<Stmt("INSERT", t, {"kit_id"} \cup Columns(e.body))>>)
  ELSE AfterUpdate(h, e, topic, UpdateOk(kit, rowCount, FALSE))

\* a dispatcher that goes on without a user row
mspeAfterUser_NoUserCheck(rows, res) ==
  Seg("mspe_consent", NoResult, res, <<Stmt("SELECT", "consents", {})>>)

\* maybeSendPdfEmail after SELECT ... FROM users
mspeAfterUser(rows, res) ==
  IF Len(rows) = 0 THEN Return(res)
  ELSE Seg("mspe_consent", NoResult, res, <<Stmt("SELECT", "consents", {})>>)

\* maybeSendPdfEmail after SELECT toc_agreed FROM consents, row being the LIMIT 1 row
mspeAfterConsent(rows, row, res) ==
  IF Len(rows) = 0 THEN Return(res)
  ELSE IF ~Truthy(row.cols["toc_agreed"]) THEN Return(res)
  ELSE Seg("mspe_action", NoResult, res, <<Stmt("SELECT", "actions", {})>>)

\* a dispatcher that never looks at pdf_email_sent
mspeAfterAction_NoSentCheck(rows, row, res) ==
  IF Len(rows) = 0 THEN Return(res)
  ELSE IF ~Truthy(row.cols["appointment_made"]) THEN Return(res)
  ELSE Seg("publish", NoResult, res, <<>>)

\* maybeSendPdfEmail after SELECT appointment_made, pdf_email_sent FROM actions
mspeAfterAction(rows, row, res) ==
  IF Len(rows) = 0 THEN Return(res)
  ELSE IF ~Truthy(row.cols["appointment_made"]) THEN Return(res)
  ELSE IF Truthy(row.cols["pdf_email_sent"]) THEN Return(res)
  ELSE Seg("publish", NoResult, res, <<>>)

(***************************************************************************)
(* webhookActions.  Its body is { event, payload }; the payload of an      *)
(* invitee.created event carries the invitee's email and the emails of     *)
(* payload.scheduled_event.event_guests.                                   *)
(***************************************************************************)
\* the payload { email, scheduled_event: { event_guests: guests } }, guests
\* being the sequence of guest?.email
JsPayload(email, guests) ==
  [t |-> "object", v |-> "payload", email |-> email, guests |-> guests]

\* s.toLowerCase(), lower(s)
LowerCase(s) ==
  CASE s = "Invitee.Created" -> "invitee.created"
    [] s = "A@B.C" -> "a@b.c"
    [] s = " A@B.C " -> " a@b.c "
    [] OTHER -> s

\* s.trim()
Trim(s) ==
  CASE s = " A@B.C " -> "A@B.C"
    [] s = " a@b.c " -> "a@b.c"
    [] OTHER -> s

\* String(body.event || '').toLowerCase() === 'invitee.created'
IsInviteeCreated(body) ==
  /\ Truthy(Get(body, "event"))
  /\ LowerCase(Get(body, "event").v) = "invitee.created"

\* body.payload?.email
PayloadEmail(body) ==
  IF Get(body, "payload").t = "object" THEN Get(body, "payload").email ELSE JsUndefined

\* Array.isArray(body.payload?.scheduled_event?.event_guests) ? ... : []
PayloadGuests(body) ==
  IF Get(body, "payload").t = "object" THEN Get(body, "payload").guests ELSE <<>>

\* SELECT ... FROM users WHERE lower(email) = lower($1), $1 = email.trim().toLowerCase()
UsersByEmail(rows, email) ==
  SelectSeq(rows, LAMBDA r : /\ r.cols["email"].t = "string"
                             /\ LowerCase(r.cols["email"].v) = LowerCase(LowerCase(Trim(email))))

\* the locals of webhookActions: which branch it took, kitId, the kit_id it is
\* marking and whether that is the invitee's, the guests still to visit,
\* touchedKitIds and the index of the one the dispatcher runs for,
\* actionResult.rowCount and created
NoLoc ==
  [mode |-> "", kit |-> "", marking |-> "", main |-> FALSE, guests |-> <<>>,
   touched |-> <<>>, next |-> 0, updated |-> 0, created |-> FALSE]

\* a segment together with the locals it leaves
Frame(seg, l) == [seg |-> seg, loc |-> l]

\* always200({ ok, error, code })
always200(ok, error, code) ==
  [NoResult EXCEPT !.kind = "response", !.statusCode = 200, !.ok = ok, !.error = error,
                   !.code = code]

\* always200({ ok: true, kit_id: kitId, updated: actionResult.rowCount, created_when_missing })
WebhookOk(l) ==
  [always200(TRUE, "", "") EXCEPT !.key = JsStr(l.kit), !.updated = l.updated,
                                  !.created = l.created]

\* a catch block that lets the error go
hookCatch_Rethrows(code) == Thrown(code)

\* the catch blocks of webhookActions
hookCatch(code) ==
  always200(FALSE, IF code \in ConnectionErrors THEN "Database connection failed" ELSE "error",
            code)

\* what the generic branch makes of what updateActions returned or threw
Always200Of(res) ==
  IF res.kind = "throw" THEN hookCatch(res.code)
  ELSE IF res.statusCode = 200 THEN res
  ELSE [res EXCEPT !.statusCode = 200, !.ok = FALSE]

\* after the loop over touchedKitIds: the appointment_made message, if a topic is set
hookAfterDispatch(l, topic) ==
  IF topic THEN Frame(Seg("wh_publish", NoResult, NoResult, <<>>), l)
  ELSE Frame(Return(WebhookOk(l)), l)

\* for (const kid of touchedKitIds) await maybeSendPdfEmail(db, kid, ...), from
\* the i-th on: up to the dispatcher's first read; without a topic every call
\* returns at once
hookDispatchFrom(l, i, topic) ==
  IF i > Len(l.touched) THEN hookAfterDispatch(l, topic)
  ELSE IF ~topic
  THEN Frame([Return(WebhookOk(l)) EXCEPT !.call = SubSeq(l.touched, i, Len(l.touched))], l)
  ELSE Frame(Call(maybeSendPdfEmailBegin(topic, NoResult), l.touched[i]),
             [l EXCEPT !.next = i])

\* for (const guest of guests): skip the guests without an email that is a
\* string, up to the lookup of the next guest; after the last, the dispatcher
RECURSIVE hookGuests(_, _)
hookGuests(l, topic) ==
  IF l.guests = <<>> THEN hookDispatchFrom(l, 1, topic)
  ELSE IF ~Truthy(Head(l.guests)) \/ ~IsString(Head(l.guests))
  THEN hookGuests([l EXCEPT !.guests = Tail(@)], topic)
  ELSE Frame(Seg("wh_guest", NoResult, NoResult, <<Stmt("SELECT", "users", {})>>), l)

\* webhookActions up to its first await
webhookBegin(e) ==
  IF parseJsonBody(e).null
  THEN Frame(Return(always200(FALSE, "Request body must be valid JSON", "")), NoLoc)
  ELSE IF IsInviteeCreated(e.body)
  THEN IF ~Truthy(PayloadEmail(e.body)) \/ ~IsString(PayloadEmail(e.body))
       THEN Frame(Return(always200(FALSE, "invitee.created payload missing email", "")), NoLoc)
       ELSE Frame(Seg("wh_user", NoResult, NoResult, <<Stmt("SELECT", "users", {})>>),
                  [NoLoc EXCEPT !.mode = "invitee", !.guests = PayloadGuests(e.body)])
  ELSE Frame([updateByKitIdBegin("actions", e) EXCEPT
                !.result = IF @.kind = "none" THEN @ ELSE Always200Of(@)],
             [NoLoc EXCEPT !.mode = "generic"])

\* after the lookup of the invitee, row being the LIMIT 1 row
hookAfterUser(l, rows, row) ==
  IF Len(rows) = 0 \/ row.kit_id = ""
  THEN Frame(Return(always200(FALSE, "No user found for this email", "")), l)
  ELSE Frame(Seg("wh_update", NoResult, NoResult, <<Stmt("UPDATE", "actions", {"appointment_made"})>>),
             [l EXCEPT !.kit = row.kit_id, !.marking = row.kit_id, !.main = TRUE,
                       !.touched = <<row.kit_id>>])

\* after the lookup of a guest
hookAfterGuest(l, rows, row, topic) ==
  IF Len(rows) = 0 \/ row.kit_id = ""
  THEN hookGuests([l EXCEPT !.guests = Tail(@)], topic)
  ELSE Frame(Seg("wh_update", NoResult, NoResult, <<Stmt("UPDATE", "actions", {"appointment_made"})>>),
             [l EXCEPT !.marking = row.kit_id, !.main = FALSE,
                       !.touched = Append(@, row.kit_id)])

\* the locals once the kit_id being marked has its row: the invitee's rowCount
\* and created are kept for the response, a guest is done with
hookMarked(l, rowCount, created) ==
  IF l.main THEN [l EXCEPT !.updated = rowCount, !.created = created, !.main = FALSE,
                           !.marking = ""]
  ELSE [l EXCEPT !.guests = Tail(@), !.marking = ""]

\* after UPDATE actions SET appointment_made = true WHERE kit_id = $1
hookAfterUpdate(l, rowCount, topic) ==
  IF rowCount = 0
  THEN Frame(Seg("wh_insert", NoResult, NoResult,
                 <<Stmt("INSERT", "actions", {"kit_id", "appointment_made"})>>), l)
  ELSE hookGuests(hookMarked(l, rowCount, FALSE), topic)

\* after INSERT INTO actions (kit_id, appointment_made) VALUES ($1, true)
hookAfterInsert(l, topic) == hookGuests(hookMarked(l, 1, TRUE), topic)

\* how the caller of the segment goes on: webhookActions wraps what
\* updateActions returned or threw (generic branch), or takes the dispatcher's
\* return to the next touched kit_id and its throw to the catch block
\* (invitee.created branch); the other handlers have no caller
Resume(h, l, at, seg, topic) ==
  IF h # "webhookActions" \/ seg.pc # "done" THEN Frame(seg, l)
  ELSE IF l.mode = "generic" THEN Frame([seg EXCEPT !.result = Always200Of(@)], l)
  ELSE IF at \notin {"mspe_user", "mspe_consent", "mspe_action", "publish"} THEN Frame(seg, l)
  ELSE IF seg.result.kind = "throw" THEN Frame(Return(hookCatch(seg.result.code)), l)
  ELSE hookDispatchFrom(l, l.next + 1, topic)

\* the first segment of handler h on event e
Begin(h, e) ==
  CASE h = "getState" -> getStateBegin(e)
    [] h = "updateState" -> updateStateBegin(e)
    [] h \in ListHandlers -> getByKitIdBegin(TableOf(h), e)
    [] h \in UpdateHandlers -> updateByKitIdBegin(TableOf(h), e)
    [] h = "webhookActions" -> webhookBegin(e).seg

\* the locals it leaves
BeginLoc(h, e) == IF h = "webhookActions" THEN webhookBegin(e).loc ELSE NoLoc

\* what handler h makes of a driver error raised by the statement it awaits at pc
Catch(h, at, code) ==
  CASE at \in {"select_state", "upsert"} -> StateCatch(code)
    [] at = "select" -> ListCatch(code)
    [] at \in {"update", "insert"} -> UpdateCatch(code)
    [] at \in {"wh_user", "wh_guest", "wh_update", "wh_insert"} -> hookCatch(code)
    [] OTHER -> Thrown(code)

(***************************************************************************)
(* The steps.                                                              *)
(***************************************************************************)
\* Notifications counted per kit_id (the publish step waits at this count).
MaxPublished == 2

store == <<state_machine_state, tables, published>>

env == <<uniqueKitId, ROUTER_TOPIC_ARN>>

Range(f) == {f[i] : i \in DOMAIN f}

KitOf(e) == e.body["kit_id"].v

NoRow == [kit_id |-> "", cols |-> <<>>]

\* the row a SELECT ... LIMIT 1 may return: any of the matching rows
Limit1(rows) == IF Len(rows) = 0 THEN {NoRow} ELSE Range(rows)

\* some row of table t for kit holds x in column c
Holds(t, kit, c, x) ==
  \E i \in DOMAIN RowsOf(tables[t], kit) : RowsOf(tables[t], kit)[i].cols[c] = x

HasRow(t, kit) == Len(RowsOf(tables[t], kit)) > 0

\* some action row of kit has appointment_made true and pdf_email_sent not true
Unsent(kit) ==
  \E i \in DOMAIN RowsOf(tables["actions"], kit) :
    /\ RowsOf(tables["actions"], kit)[i].cols["appointment_made"] = JsTrue
    /\ RowsOf(tables["actions"], kit)[i].cols["pdf_email_sent"] # JsTrue

\* the kit_id the dispatcher of request p runs for
DispatchKit(p) ==
  IF loc[p].mode = "invitee" THEN loc[p].touched[loc[p].next] ELSE KitOf(event[p])

\* the body of UPDATE actions SET appointment_made = true WHERE kit_id = $1
hookBody(kit) == [kit_id |-> JsStr(kit), appointment_made |-> JsTrue]

\* request p moves on by one segment, leaving the locals f.loc
Settle(p, f) ==
  /\ pc' = [pc EXCEPT ![p] = f.seg.pc]
  /\ result' = [result EXCEPT ![p] = f.seg.result]
  /\ held' = [held EXCEPT ![p] = f.seg.held]
  /\ sql' = [sql EXCEPT ![p] = @ \o f.seg.send]
  /\ calls' = [calls EXCEPT ![p] = @ \o f.seg.call]
  /\ loc' = [loc EXCEPT ![p] = f.loc]

\* request p moves on by one segment of the function it is in
Advance(p, seg) == Settle(p, Resume(handler[p], loc[p], pc[p], seg, ROUTER_TOPIC_ARN))

\* a request arrives in a free slot and its handler runs to its first await
Invoke(p, workload) ==
  /\ pc[p] = "idle"
  /\ \E w \in workload :
       /\ handler' = [handler EXCEPT ![p] = w.h]
       /\ event' = [event EXCEPT ![p] = w.e]
       /\ Settle(p, Frame(Begin(w.h, w.e), BeginLoc(w.h, w.e)))
       /\ preRows' = [preRows EXCEPT ![p] =
                        IF Begin(w.h, w.e).pc = "update"
                        THEN Len(RowsOf(tables[TableOf(w.h)], KitOf(w.e)))
                        ELSE 0]
       /\ before' = [before EXCEPT ![p] =
                       IF Begin(w.h, w.e).pc \in {"update", "select"}
                       THEN RowsOf(tables[TableOf(w.h)], KitOf(w.e))
                       ELSE <<>>]
  /\ UNCHANGED <<store, env, sent, seen, observed, raised, lastWrite>>

\* getState's SELECT
ExecSelectState(p) ==
  /\ pc[p] = "select_state"
  /\ Advance(p, Return(getStateEnd(event[p].q.v,
                                   SelectState(state_machine_state, event[p].q.v))))
  /\ seen' = [seen EXCEPT ![p] = lastWrite[event[p].q.v]]
  /\ UNCHANGED <<store, env, handler, event, sent, observed, preRows, before, raised, lastWrite>>

\* updateState's upsert
ExecUpsert(p) ==
  /\ pc[p] = "upsert"
  /\ state_machine_state' =
       UpsertState(state_machine_state, event[p].body["key"].v,
                   JSONstringify(ValueOf(event[p].body)))
  /\ lastWrite' = [lastWrite EXCEPT ![event[p].body["key"].v] = ValueOf(event[p].body)]
  /\ Advance(p, Return(updateStateEnd(event[p].body)))
  /\ UNCHANGED <<tables, published, env, handler, event, sent, seen, observed, preRows, before, raised>>

\* getByKitId's SELECT
ExecSelect(p) ==
  /\ pc[p] = "select"
  /\ Advance(p, Return(getByKitIdEnd(KitOf(event[p]),
                                     RowsOf(tables[TableOf(handler[p])], KitOf(event[p])))))
  /\ UNCHANGED <<store, env, handler, event, sent, seen, observed, preRows, before, raised, lastWrite>>

\* updateByKitId's UPDATE
ExecUpdate(p) ==
  /\ pc[p] = "update"
  /\ LET t == TableOf(handler[p])
         e == event[p]
         code == StatementError(t, e.body)
     IN IF code # ""
        THEN /\ Advance(p, Return(Catch(handler[p], "update", code)))
             /\ raised' = [raised EXCEPT ![p] = code]
             /\ UNCHANGED tables
        ELSE /\ tables' = [tables EXCEPT ![t] = UpdateRows(@, KitOf(e), e.body)]
             /\ UNCHANGED raised
             /\ Advance(p, updateByKitIdUpdated(handler[p], e, ROUTER_TOPIC_ARN, t, KitOf(e),
                                                Len(RowsOf(tables[t], KitOf(e)))))
  /\ UNCHANGED <<state_machine_state, published, env, handler, event, sent, seen, observed,
                 preRows, before, lastWrite>>

\* updateByKitId's INSERT: a duplicate key when kit_id is unique and has a row
ExecInsert(p) ==
  /\ pc[p] = "insert"
  /\ LET t == TableOf(handler[p])
         e == event[p]
     IN IF uniqueKitId /\ Len(RowsOf(tables[t], KitOf(e))) > 0
        THEN /\ Advance(p, Return(Catch(handler[p], "insert", "23505")))
             /\ raised' = [raised EXCEPT ![p] = "23505"]
             /\ UNCHANGED tables
        ELSE /\ tables' = [tables EXCEPT ![t] = InsertRow(@, t, KitOf(e), e.body)]
             /\ UNCHANGED raised
             /\ Advance(p, AfterUpdate(handler[p], e, ROUTER_TOPIC_ARN,
                                       UpdateOk(KitOf(e), 1, TRUE)))
  /\ UNCHANGED <<state_machine_state, published, env, handler, event, sent, seen, observed,
                 preRows, before, lastWrite>>

\* maybeSendPdfEmail's SELECT ... FROM users
ExecDispatchUser(p) ==
  /\ pc[p] = "mspe_user"
  /\ Advance(p, mspeAfterUser(RowsOf(tables["users"], DispatchKit(p)), held[p]))
  /\ observed' = [observed EXCEPT ![p] =
                     IF HasRow("users", DispatchKit(p)) THEN {"user"} ELSE {}]
  /\ UNCHANGED <<store, env, handler, event, sent, seen, preRows, before, raised, lastWrite>>

\* maybeSendPdfEmail's SELECT toc_agreed FROM consents
ExecDispatchConsent(p) ==
  /\ pc[p] = "mspe_consent"
  /\ \E row \in Limit1(RowsOf(tables["consents"], DispatchKit(p))) :
       Advance(p, mspeAfterConsent(RowsOf(tables["consents"], DispatchKit(p)), row, held[p]))
  /\ observed' = [observed EXCEPT ![p] =
                     IF Holds("consents", DispatchKit(p), "toc_agreed", JsTrue)
                     THEN @ \cup {"consent"} ELSE @]
  /\ UNCHANGED <<store, env, handler, event, sent, seen, preRows, before, raised, lastWrite>>

\* maybeSendPdfEmail's SELECT appointment_made, pdf_email_sent FROM actions
ExecDispatchAction(p) ==
  /\ pc[p] = "mspe_action"
  /\ \E row \in Limit1(RowsOf(tables["actions"], DispatchKit(p))) :
       Advance(p, mspeAfterAction(RowsOf(tables["actions"], DispatchKit(p)), row, held[p]))
  /\ observed' = [observed EXCEPT ![p] =
                     IF Unsent(DispatchKit(p)) THEN @ \cup {"action"} ELSE @]
  /\ UNCHANGED <<store, env, handler, event, sent, seen, preRows, before, raised, lastWrite>>

\* snsClient.send resolves: the notification is delivered
ExecPublish(p) ==
  /\ pc[p] = "publish"
  /\ published[DispatchKit(p)] < MaxPublished
  /\ published' = [published EXCEPT ![DispatchKit(p)] = @ + 1]
  /\ sent' = [sent EXCEPT ![p] = @ + 1]
  /\ Advance(p, Return(held[p]))
  /\ UNCHANGED <<state_machine_state, tables, env, handler, event, seen, observed, preRows, before, raised, lastWrite>>

\* snsClient.send rejects: caught and logged in maybeSendPdfEmail
PublishFails(p) ==
  /\ pc[p] = "publish"
  /\ Advance(p, Return(held[p]))
  /\ raised' = [raised EXCEPT ![p] = "PublishError"]
  /\ UNCHANGED <<store, env, handler, event, sent, seen, observed, preRows, before, lastWrite>>

\* webhookActions' SELECT ... FROM users for the invitee's email
ExecHookUser(p) ==
  /\ pc[p] = "wh_user"
  /\ LET rows == UsersByEmail(tables["users"], PayloadEmail(event[p].body).v)
     IN \E row \in Limit1(rows) : Settle(p, hookAfterUser(loc[p], rows, row))
  /\ UNCHANGED <<store, env, handler, event, sent, seen, observed, preRows, before, raised, lastWrite>>

\* webhookActions' SELECT ... FROM users for a guest's email
ExecHookGuest(p) ==
  /\ pc[p] = "wh_guest"
  /\ LET rows == UsersByEmail(tables["users"], Head(loc[p].guests).v)
     IN \E row \in Limit1(rows) :
          Settle(p, hookAfterGuest(loc[p], rows, row, ROUTER_TOPIC_ARN))
  /\ UNCHANGED <<store, env, handler, event, sent, seen, observed, preRows, before, raised, lastWrite>>

\* webhookActions' UPDATE actions SET appointment_made = true
ExecHookUpdate(p) ==
  /\ pc[p] = "wh_update"
  /\ LET kit == loc[p].marking
     IN /\ tables' = [tables EXCEPT !["actions"] = UpdateRows(@, kit, hookBody(kit))]
        /\ Settle(p, hookAfterUpdate(loc[p], Len(RowsOf(tables["actions"], kit)),
                                     ROUTER_TOPIC_ARN))
  /\ UNCHANGED <<state_machine_state, published, env, handler, event, sent, seen, observed,
                 preRows, before, raised, lastWrite>>

\* webhookActions' INSERT INTO actions: a duplicate key when kit_id is unique
\* and has a row
ExecHookInsert(p) ==
  /\ pc[p] = "wh_insert"
  /\ LET kit == loc[p].marking
     IN IF uniqueKitId /\ Len(RowsOf(tables["actions"], kit)) > 0
        THEN /\ Settle(p, Frame(Return(hookCatch("23505")), loc[p]))
             /\ raised' = [raised EXCEPT ![p] = "23505"]
             /\ UNCHANGED tables
        ELSE /\ tables' = [tables EXCEPT !["actions"] = InsertRow(@, "actions", kit, hookBody(kit))]
             /\ UNCHANGED raised
             /\ Settle(p, hookAfterInsert(loc[p], ROUTER_TOPIC_ARN))
  /\ UNCHANGED <<state_machine_state, published, env, handler, event, sent, seen, observed,
                 preRows, before, lastWrite>>

\* the appointment_made message is published
ExecHookPublish(p) ==
  /\ pc[p] = "wh_publish"
  /\ Settle(p, Frame(Return(WebhookOk(loc[p])), loc[p]))
  /\ UNCHANGED <<store, env, handler, event, sent, seen, observed, preRows, before, raised, lastWrite>>

\* publishing the appointment_made message fails: caught and logged
HookPublishFails(p) ==
  /\ pc[p] = "wh_publish"
  /\ Settle(p, Frame(Return(WebhookOk(loc[p])), loc[p]))
  /\ raised' = [raised EXCEPT ![p] = "PublishError"]
  /\ UNCHANGED <<store, env, handler, event, sent, seen, observed, preRows, before, lastWrite>>

QueryPcs ==
  {"select_state", "upsert", "select", "update", "insert", "mspe_user", "mspe_consent",
   "mspe_action", "wh_user", "wh_guest", "wh_update", "wh_insert"}

\* the driver raises on the statement request p awaits
QueryFails(p) ==
  /\ pc[p] \in QueryPcs
  /\ \E code \in DriverErrors :
       /\ Advance(p, Return(Catch(handler[p], pc[p], code)))
       /\ raised' = [raised EXCEPT ![p] = code]
  /\ UNCHANGED <<store, env, handler, event, sent, seen, observed, preRows, before, lastWrite>>

\* the response leaves; the slot is free again
Respond(p) ==
  /\ pc[p] = "done"
  /\ pc' = [pc EXCEPT ![p] = "idle"]
  /\ handler' = [handler EXCEPT ![p] = ""]
  /\ event' = [event EXCEPT ![p] = NoEvent]
  /\ result' = [result EXCEPT ![p] = NoResult]
  /\ held' = [held EXCEPT ![p] = NoResult]
  /\ sql' = [sql EXCEPT ![p] = <<>>]
  /\ sent' = [sent EXCEPT ![p] = 0]
  /\ seen' = [seen EXCEPT ![p] = NotWritten]
  /\ preRows' = [preRows EXCEPT ![p] = 0]
  /\ calls' = [calls EXCEPT ![p] = <<>>]
  /\ observed' = [observed EXCEPT ![p] = {}]
  /\ before' = [before EXCEPT ![p] = <<>>]
  /\ raised' = [raised EXCEPT ![p] = ""]
  /\ loc' = [loc EXCEPT ![p] = NoLoc]
  /\ UNCHANGED <<store, env, lastWrite>>

(***************************************************************************)
(* Initial states: empty tables, no request in flight.                     *)
(***************************************************************************)
InitWith(unique, topic) ==
  /\ state_machine_state = <<>>
  /\ tables = [t \in TABLES |-> <<>>]
  /\ uniqueKitId \in unique
  /\ ROUTER_TOPIC_ARN \in topic
  /\ published = [k \in KitIds |-> 0]
  /\ pc = [p \in Procs |-> "idle"]
  /\ handler = [p \in Procs |-> ""]
  /\ event = [p \in Procs |-> NoEvent]
  /\ held = [p \in Procs |-> NoResult]
  /\ result = [p \in Procs |-> NoResult]
  /\ sql = [p \in Procs |-> <<>>]
  /\ sent = [p \in Procs |-> 0]
  /\ seen = [p \in Procs |-> NotWritten]
  /\ preRows = [p \in Procs |-> 0]
  /\ calls = [p \in Procs |-> <<>>]
  /\ observed = [p \in Procs |-> {}]
  /\ before = [p \in Procs |-> <<>>]
  /\ raised = [p \in Procs |-> ""]
  /\ loc = [p \in Procs |-> NoLoc]
  /\ lastWrite = [k \in Keys |-> NotWritten]

(***************************************************************************)
(* Workloads: the requests that arrive, as [h: handler, e: event].         *)
(***************************************************************************)
Req(h, e) == [h |-> h, e |-> e]

\* GET /state with no key, an empty key, a key that is no string, a key
GetStateRequests ==
  {Req("getState", Event("object", q, <<>>)) :
     q \in {JsUndefined, JsStr(""), JsNum("5")} \cup {JsStr(k) : k \in Keys}}

\* POST /state with a body that does not parse, the body null, an object without a
\* usable key, and objects with a key and no value, null or a JSON value
UpdateStateRequests ==
  {Req("updateState", Event("invalid", JsUndefined, <<>>)),
   Req("updateState", Event("null", JsUndefined, <<>>)),
   Req("updateState", Event("object", JsUndefined, <<>>))}
  \cup {Req("updateState", Event("object", JsUndefined, [k \in {"key"} |-> key])) :
          key \in {JsStr(""), JsNum("5")}}
  \cup {Req("updateState", Event("object", JsUndefined, [k \in {"key"} |-> JsStr(key)])) :
          key \in Keys}
  \cup {Req("updateState",
            Event("object", JsUndefined,
                  [k \in {"key", "value"} |-> IF k = "key" THEN JsStr(key) ELSE value])) :
          key \in Keys, value \in {JsNull, JsStr("active"), JsNum("1")}}

StateWorkload == GetStateRequests \cup UpdateStateRequests

\* the body { kit_id: kit, ...fields }
Body(kit, fields) ==
  [k \in DOMAIN fields \cup {"kit_id"} |-> IF k = "kit_id" THEN kit ELSE fields[k]]

\* the one-property object { name: x }
Field(name, x) == [k \in {name} |-> x]

TheKit == JsStr("abc-123")

\* POST /{table} for the kit_id, and for a body without one
ListRequests ==
  {Req(h, Event("object", JsUndefined, Body(TheKit, <<>>))) : h \in ListHandlers}
  \cup {Req("getReportsByKitId", Event("object", JsUndefined, <<>>)),
        Req("getReportsByKitId", Event("invalid", JsUndefined, <<>>))}

\* POST /{table}/update with fields the table has and values its columns take
CoreUpdates ==
  {Req("updateUsers", Event("object", JsUndefined, Body(TheKit, Field("email", JsStr("a@b.c"))))),
   Req("updateReports", Event("object", JsUndefined, Body(TheKit, Field("status", JsStr("completed"))))),
   Req("updateReports", Event("object", JsUndefined, Body(TheKit, Field("status", JsNull)))),
   Req("updateKits", Event("object", JsUndefined, Body(TheKit, Field("status", JsStr("completed")))))}
  \cup {Req("updateConsents", Event("object", JsUndefined, Body(TheKit, Field("toc_agreed", x)))) :
          x \in {JsTrue, JsFalse}}
  \cup {Req("updateActions", Event("object", JsUndefined, Body(TheKit, Field(c, x)))) :
          c \in {"appointment_made", "pdf_email_sent"}, x \in {JsTrue, JsFalse}}
  \cup {Req("updateActions", Event("object", JsUndefined,
                                   Body(TheKit, Field("appointment_made", JsStr("true")))))}

\* POST /{table}/update that validation or the database turns away
BadUpdates ==
  {Req("updateKits", Event("invalid", JsUndefined, <<>>)),
   Req("updateKits", Event("null", JsUndefined, <<>>)),
   Req("updateKits", Event("object", JsUndefined, Field("status", JsStr("completed")))),
   Req("updateKits", Event("object", JsUndefined, Body(JsStr(""), Field("status", JsStr("completed"))))),
   Req("updateKits", Event("object", JsUndefined, Body(JsNum("5"), Field("status", JsStr("completed"))))),
   Req("updateKits", Event("object", JsUndefined, Body(TheKit, <<>>))),
   Req("updateKits", Event("object", JsUndefined, Body(TheKit, Field("1bad", JsStr("x"))))),
   Req("updateKits", Event("object", JsUndefined, Body(TheKit, Field("status", JsUndefined)))),
   Req("updateKits", Event("object", JsUndefined, Body(TheKit, Field("status", JsNaN)))),
   Req("updateKits", Event("object", JsUndefined, Body(TheKit, Field("score", JsNum("95"))))),
   Req("updateActions", Event("object", JsUndefined,
                              Body(TheKit, Field("appointment_made", JsStr("completed")))))}

SeqWorkload == ListRequests \cup CoreUpdates \cup BadUpdates

\* the requests that race in Spec
ConcWorkload ==
  {Req("updateUsers", Event("object", JsUndefined, Body(TheKit, Field("email", JsStr("a@b.c"))))),
   Req("updateConsents", Event("object", JsUndefined, Body(TheKit, Field("toc_agreed", JsTrue)))),
   Req("updateActions", Event("object", JsUndefined, Body(TheKit, Field("appointment_made", JsTrue)))),
   Req("updateActions", Event("object", JsUndefined, Body(TheKit, Field("pdf_email_sent", JsTrue)))),
   Req("getActionsByKitId", Event("object", JsUndefined, Body(TheKit, <<>>)))}

\* the two slots whose requests are about different kit_ids
PairProcs == {1, 2}

\* the kit_id the requests in slot p are about, when slots keep to kit_ids of
\* their own
KitFor(p) == IF p = 1 THEN "abc-123" ELSE "xyz-789"

\* updates and lists of two tables for one kit_id
PairWorkload(kit) ==
  {Req("updateReports", Event("object", JsUndefined, Body(JsStr(kit), Field("status", x)))) :
     x \in {JsStr("completed"), JsNull}}
  \cup {Req("updateKits", Event("object", JsUndefined,
                                Body(JsStr(kit), Field("status", JsStr("completed")))))}
  \cup {Req(h, Event("object", JsUndefined, Body(JsStr(kit), <<>>))) :
          h \in {"getReportsByKitId", "getKitsByKitId"}}

\* updates of one column of the actions, for two kit_ids, and of a report
FrameWorkload ==
  {Req("updateActions", Event("object", JsUndefined, Body(TheKit, f))) :
     f \in {Field("pdf_email_sent", JsTrue), Field("appointment_made", JsFalse)}}
  \cup {Req("updateActions", Event("object", JsUndefined,
                                   Body(JsStr("xyz-789"), Field("pdf_email_sent", JsTrue)))),
        Req("updateReports", Event("object", JsUndefined,
                                   Body(TheKit, Field("status", JsStr("completed")))))}

\* Properties a rich update body carries besides kit_id.
MaxFields == 3

\* names a rich body may carry for table t: its columns, and names that are no
\* columns of it (two of the column grammar, three not)
RichNames(t) == ColumnsOf(t) \cup {"_col2", "1bad", "drop;table", "Status-2"}

\* values a rich body may give a name
RichValues(t, k) ==
  IF k \in ColumnsOf(t)
  THEN {IF ColType(k) = "boolean" THEN JsTrue ELSE JsStr("completed"), JsNull, JsUndefined, JsNaN}
  ELSE {JsStr("x"), JsUndefined}

RichBodies(t) ==
  UNION {{f \in [S -> {JsTrue, JsStr("completed"), JsStr("x"), JsNull, JsUndefined, JsNaN}] :
            \A k \in S : f[k] \in RichValues(t, k)} :
         S \in {S \in SUBSET RichNames(t) : Cardinality(S) <= MaxFields}}

\* POST /{table}/update with every rich body, for each table
RichWorkload ==
  UNION {{Req(h, Event("object", JsUndefined, Body(TheKit, f))) :
            f \in RichBodies(TableOf(h))} : h \in UpdateHandlers}

(***************************************************************************)
(* The key-value endpoints under concurrent requests.                      *)
(***************************************************************************)
InitState == InitWith({FALSE}, {TRUE})

NextState ==
  \E p \in Procs :
    \/ Invoke(p, StateWorkload)
    \/ ExecSelectState(p)
    \/ ExecUpsert(p)
    \/ QueryFails(p)
    \/ Respond(p)

SpecState == InitState /\ [][NextState]_vars

(***************************************************************************)
(* The entity endpoints under concurrent requests; the database raises     *)
(* only what its constraints make it raise.                                *)
(***************************************************************************)
Init == InitWith(BOOLEAN, {TRUE})

Next ==
  \E p \in Procs :
    \/ Invoke(p, ConcWorkload)
    \/ ExecSelect(p)
    \/ ExecUpdate(p)
    \/ ExecInsert(p)
    \/ ExecDispatchUser(p)
    \/ ExecDispatchConsent(p)
    \/ ExecDispatchAction(p)
    \/ ExecPublish(p)
    \/ PublishFails(p)
    \/ Respond(p)

Spec == Init /\ [][Next]_vars

(***************************************************************************)
(* The entity endpoints, one request at a time, with driver errors and a   *)
(* topic that may be unset.                                                *)
(***************************************************************************)
InitSeq == InitWith({FALSE}, BOOLEAN)

NextSeq ==
  \/ Invoke(1, SeqWorkload)
  \/ ExecSelect(1)
  \/ ExecUpdate(1)
  \/ ExecInsert(1)
  \/ ExecDispatchUser(1)
  \/ ExecDispatchConsent(1)
  \/ ExecDispatchAction(1)
  \/ ExecPublish(1)
  \/ PublishFails(1)
  \/ QueryFails(1)
  \/ Respond(1)

SpecSeq == InitSeq /\ [][NextSeq]_vars

(***************************************************************************)
(* The Calendly webhook, one request at a time, with the updates that make *)
(* a kit_id ready: two users, a consent, and events of every branch.       *)
(***************************************************************************)
Invitee == JsStr("a@b.c")

Guest == JsStr("g@h.i")

\* the body { event: name, payload: payload }
HookBody(name, payload) == [k \in {"event", "payload"} |-> IF k = "event" THEN name ELSE payload]

HookEvents ==
  {Event("invalid", JsUndefined, <<>>),
   Event("null", JsUndefined, <<>>),
   Event("object", JsUndefined, Body(TheKit, Field("appointment_made", JsTrue))),
   Event("object", JsUndefined, Field("appointment_made", JsTrue)),
   Event("object", JsUndefined, HookBody(JsStr("invitee.canceled"), JsPayload(Invitee, <<>>))),
   Event("object", JsUndefined, Field("event", JsStr("invitee.created")))}
  \cup {Event("object", JsUndefined, HookBody(JsStr("invitee.created"), JsPayload(email, <<>>))) :
          email \in {JsUndefined, JsNum("5"), JsStr("nobody@x.y"), Invitee}}
  \cup {Event("object", JsUndefined, HookBody(JsStr("Invitee.Created"), JsPayload(JsStr(" A@B.C "), guests))) :
          guests \in {<<Guest>>, <<Invitee>>, <<JsNull, JsStr("nobody@x.y")>>}}

HookWorkload ==
  {Req("updateUsers", Event("object", JsUndefined, Body(TheKit, Field("email", Invitee)))),
   Req("updateUsers", Event("object", JsUndefined, Body(JsStr("xyz-789"), Field("email", Guest)))),
   Req("updateConsents", Event("object", JsUndefined, Body(TheKit, Field("toc_agreed", JsTrue))))}
  \cup {Req("webhookActions", e) : e \in HookEvents}

InitHook == InitWith({FALSE}, BOOLEAN)

NextHook ==
  \/ Invoke(1, HookWorkload)
  \/ ExecUpdate(1)
  \/ ExecInsert(1)
  \/ ExecDispatchUser(1)
  \/ ExecDispatchConsent(1)
  \/ ExecDispatchAction(1)
  \/ ExecPublish(1)
  \/ PublishFails(1)
  \/ ExecHookUser(1)
  \/ ExecHookGuest(1)
  \/ ExecHookUpdate(1)
  \/ ExecHookInsert(1)
  \/ ExecHookPublish(1)
  \/ HookPublishFails(1)
  \/ QueryFails(1)
  \/ Respond(1)

SpecHook == InitHook /\ [][NextHook]_vars

(***************************************************************************)
(* Concurrent requests about different kit_ids: slot p keeps to KitFor(p). *)
(***************************************************************************)
InitPair == InitWith(BOOLEAN, {TRUE})

NextPair ==
  \E p \in PairProcs :
    \/ Invoke(p, PairWorkload(KitFor(p)))
    \/ ExecSelect(p)
    \/ ExecUpdate(p)
    \/ ExecInsert(p)
    \/ Respond(p)

SpecPair == InitPair /\ [][NextPair]_vars

(***************************************************************************)
(* Concurrent updates of two kit_ids in tables that do not declare kit_id   *)
(* unique.                                                                 *)
(***************************************************************************)
InitFrame == InitWith({FALSE}, {TRUE})

NextFrame ==
  \E p \in Procs :
    \/ Invoke(p, FrameWorkload)
    \/ ExecUpdate(p)
    \/ ExecInsert(p)
    \/ Respond(p)

SpecFrame == InitFrame /\ [][NextFrame]_vars

(***************************************************************************)
(* One update request with a rich body on the empty database.              *)
(***************************************************************************)
InitFields == InitWith({FALSE}, {TRUE})

NextFields ==
  \/ Invoke(1, RichWorkload)
  \/ ExecUpdate(1)
  \/ ExecInsert(1)
  \/ ExecDispatchUser(1)

SpecFields == InitFields /\ [][NextFields]_vars

(***************************************************************************)
(* Properties of the key-value endpoints (SpecState).                      *)
(***************************************************************************)
\* request p is a getState whose SELECT the database answered
ReadDone(p) ==
  /\ pc[p] = "done"
  /\ handler[p] = "getState"
  /\ Len(sql[p]) = 1
  /\ raised[p] = ""

\* request p is an updateState whose upsert the database executed
WriteDone(p) ==
  /\ pc[p] = "done"
  /\ handler[p] = "updateState"
  /\ Len(sql[p]) = 1
  /\ raised[p] = ""

\* C1: a Read of a key answers 200 with the value of the latest successful Write
\* of that key, whatever was written to other keys in between: the first value
\* after one Write, the second after a second Write (last write wins).
C1_RoundTrip ==
  \A p \in Procs :
    (ReadDone(p) /\ seen[p] # NotWritten) =>
      /\ result[p].kind = "response"
      /\ result[p].statusCode = 200
      /\ result[p].key = event[p].q
      /\ result[p].value = seen[p]

\* a Read of my-key answers 1 while a Write of "active" to my-key has succeeded
\* and other-key holds a row
C1_Witness ==
  \E p, q \in Procs :
    /\ ReadDone(p) /\ event[p].q = JsStr("my-key")
    /\ result[p].statusCode = 200 /\ result[p].value = JsNum("1")
    /\ WriteDone(q) /\ event[q].body["key"] = JsStr("my-key")
    /\ result[q].value = JsStr("active")
    /\ Len(SelectState(state_machine_state, "other-key")) = 1

\* C2: each Write is one atomic insert-or-update: in every interleaving of
\* concurrent Writes every Write answers 200, a written key has exactly one row,
\* and that row holds exactly the value of one of the Writes (the latest).
C2_AtomicUpsert ==
  /\ \A p \in Procs :
       WriteDone(p) => /\ result[p].kind = "response"
                       /\ result[p].statusCode = 200
                       /\ result[p].ok
                       /\ Len(SelectState(state_machine_state, event[p].body["key"].v)) = 1
  /\ \A k \in Keys :
       /\ Len(SelectState(state_machine_state, k)) <= 1
       /\ lastWrite[k] # NotWritten =>
            /\ Len(SelectState(state_machine_state, k)) = 1
            /\ SelectState(state_machine_state, k)[1].value = JSONstringify(lastWrite[k])

\* two Writes of different values to my-key, in flight together, have both answered
C2_Witness ==
  \E p, q \in Procs :
    /\ p # q /\ WriteDone(p) /\ WriteDone(q)
    /\ event[p].body["key"] = JsStr("my-key") /\ event[q].body["key"] = JsStr("my-key")
    /\ result[p].value = JsStr("active") /\ result[q].value = JsNum("1")
    /\ result[p].statusCode = 200 /\ result[q].statusCode = 200
    /\ SelectState(state_machine_state, "my-key")[1].value = JSONstringify(JsStr("active"))

\* C3: a Read answers 404 exactly when no Write of its key has succeeded before
\* it, and 200 otherwise; a written key keeps its row.
C3_NotFoundIffNeverWritten ==
  /\ \A p \in Procs :
       ReadDone(p) =>
         /\ result[p].kind = "response"
         /\ result[p].statusCode \in {200, 404}
         /\ (result[p].statusCode = 404) <=> (seen[p] = NotWritten)
  /\ \A k \in Keys :
       (lastWrite[k] = NotWritten) <=> (Len(SelectState(state_machine_state, k)) = 0)

\* a Read of other-key answers 404 while my-key has been written, and another
\* Read of my-key answers 200
C3_Witness ==
  \E p, q \in Procs :
    /\ ReadDone(p) /\ event[p].q = JsStr("other-key") /\ result[p].statusCode = 404
    /\ ReadDone(q) /\ event[q].q = JsStr("my-key") /\ result[q].statusCode = 200
    /\ lastWrite["other-key"] = NotWritten

(***************************************************************************)
(* Properties of the update endpoints, one request after the other         *)
(* (SpecSeq).                                                              *)
(***************************************************************************)
\* request p is an update that passed validation (its UPDATE was sent), met no
\* error, and has returned
UpdateDone(p) ==
  /\ pc[p] = "done"
  /\ handler[p] \in UpdateHandlers
  /\ sql[p] # <<>>
  /\ raised[p] = ""

\* the rows table t holds for the kit_id of request p
RowsNow(p) == RowsOf(tables[TableOf(handler[p])], KitOf(event[p]))

\* the statements request p sent that are op
Sent(p, op) == {i \in DOMAIN sql[p] : sql[p][i].op = op}

HasKit(p) ==
  /\ event[p].kind = "object"
  /\ "kit_id" \in DOMAIN event[p].body
  /\ event[p].body["kit_id"].t = "string"
  /\ event[p].body["kit_id"].v # ""

\* the property names of the workloads that are a letter or an underscore
\* followed by letters, digits and underscores
GrammarNames ==
  {"appointment_made", "pdf_email_sent", "toc_agreed", "email", "status", "score", "_col2"}

\* the properties request p supplies besides kit_id that the grammar admits
Surviving(p) == (DOMAIN event[p].body \ {"kit_id"}) \cap GrammarNames

\* the surviving properties of request p whose value is undefined or NaN
Unusable(p) == {c \in Surviving(p) : event[p].body[c] \in {JsUndefined, JsNaN}}

\* C7: a surviving field whose value is undefined or NaN makes the update answer
\* 400 before any statement is sent; otherwise the update goes through, and a
\* field given as null is written: the column is null in every row of the
\* kit_id afterwards.  (Goes through: the database raised no error.)
C7_NullAcceptedUndefinedRejected ==
  \A p \in Procs :
    (pc[p] = "done" /\ handler[p] \in UpdateHandlers /\ HasKit(p) /\ Surviving(p) # {}) =>
      /\ Unusable(p) # {} =>
           /\ result[p].kind = "response"
           /\ result[p].statusCode = 400
           /\ sql[p] = <<>>
      /\ (Unusable(p) = {} /\ raised[p] = "") =>
           /\ result[p].kind = "response"
           /\ result[p].statusCode = 200
           /\ Sent(p, "UPDATE") # {}
           /\ \A c \in Surviving(p) :
                event[p].body[c] = JsNull =>
                  \A i \in DOMAIN RowsNow(p) : RowsNow(p)[i].cols[c] = JsNull

\* an update of an existing report with status: null has returned 200 and the
\* row's status is null
C7_Witness ==
  \E p \in Procs :
    /\ UpdateDone(p)
    /\ handler[p] = "updateReports"
    /\ event[p].body["status"] = JsNull
    /\ preRows[p] = 1
    /\ result[p].statusCode = 200
    /\ result[p].updated = 1
    /\ RowsNow(p)[1].cols["status"] = JsNull

\* request p is a list that met no error and has returned
ListDone(p) ==
  /\ pc[p] = "done"
  /\ handler[p] \in ListHandlers
  /\ HasKit(p)
  /\ raised[p] = ""

\* the list of request p answered 200 with exactly the rows of its kit_id
ListsRows(p) ==
  /\ result[p].kind = "response"
  /\ result[p].statusCode = 200
  /\ result[p].key = event[p].body["kit_id"]
  /\ result[p].rows = RowsNow(p)
  /\ result[p].rows = before[p]

\* C17 as stated: a successful update for a kit_id without a row leaves one
\* row, of that kit_id, holding for every surviving field the value supplied;
\* a list answers 200 with exactly the rows of the kit_id: that row after the
\* update, the empty sequence when there is none.
C17_UpdateListRoundTrip ==
  \A p \in Procs :
    /\ (UpdateDone(p) /\ preRows[p] = 0) =>
         /\ Len(RowsNow(p)) = 1
         /\ RowsNow(p)[1].kit_id = KitOf(event[p])
         /\ \A c \in Surviving(p) : RowsNow(p)[1].cols[c] = event[p].body[c]
    /\ ListDone(p) => ListsRows(p)

\* the value is null or of the type of column c
OfColumnType(c, x) ==
  \/ x.t = "null"
  \/ ColType(c) = "boolean" /\ x.t = "boolean"
  \/ ColType(c) = "text" /\ x.t = "string"

\* C17, amended: the row holds the value supplied for every surviving field
\* whose value is null or of the column's type; a value the column's type
\* coerces (the string "true" for a boolean column) is held, and listed,
\* coerced.  The rest as stated.
C17_UpdateListRoundTripTyped ==
  \A p \in Procs :
    /\ (UpdateDone(p) /\ preRows[p] = 0) =>
         /\ Len(RowsNow(p)) = 1
         /\ RowsNow(p)[1].kit_id = KitOf(event[p])
         /\ \A c \in Surviving(p) :
              OfColumnType(c, event[p].body[c]) =>
                RowsNow(p)[1].cols[c] = event[p].body[c]
    /\ ListDone(p) => ListsRows(p)

\* a list of the reports has returned the one row an update had inserted
C17_Witness ==
  \E p \in Procs :
    /\ ListDone(p)
    /\ handler[p] = "getReportsByKitId"
    /\ Len(result[p].rows) = 1
    /\ result[p].rows[1].kit_id = "abc-123"
    /\ result[p].rows[1].cols["status"] = JsStr("completed")

\* request p is a trigger update (appointment_made or toc_agreed truthy) that
\* answered 200 with no failure of a statement or of the publish
DispatchDone(p) ==
  /\ UpdateDone(p)
  /\ Triggers(handler[p], event[p])
  /\ result[p].kind = "response"
  /\ result[p].statusCode = 200

\* kit has a user row, a consent row with toc_agreed = true and an action row
\* with appointment_made = true and pdf_email_sent = false
Ready(kit) ==
  /\ HasRow("users", kit)
  /\ Holds("consents", kit, "toc_agreed", JsTrue)
  /\ Holds("actions", kit, "appointment_made", JsTrue)
  /\ Holds("actions", kit, "pdf_email_sent", JsFalse)

\* C10 as stated: a trigger update on a ready kit_id publishes exactly one
\* notification; once pdf_email_sent is true it publishes none; it publishes
\* none if the user row, the consent row or the action row is missing.
C10_FiringCount ==
  \A p \in Procs :
    DispatchDone(p) =>
      /\ Ready(KitOf(event[p])) => sent[p] = 1
      /\ Holds("actions", KitOf(event[p]), "pdf_email_sent", JsTrue) => sent[p] = 0
      /\ (\E t \in {"users", "consents", "actions"} : ~HasRow(t, KitOf(event[p]))) =>
           sent[p] = 0

\* C10, amended: with ROUTER_TOPIC_ARN set, a trigger update on a ready kit_id
\* publishes exactly one notification; with it unset, none.  Once
\* pdf_email_sent is true it publishes none; it publishes none if the user
\* row, the consent row or the action row is missing; never more than one.
C10_FiringCountWithTopic ==
  \A p \in Procs :
    DispatchDone(p) =>
      /\ (Ready(KitOf(event[p])) /\ ROUTER_TOPIC_ARN) => sent[p] = 1
      /\ ~ROUTER_TOPIC_ARN => sent[p] = 0
      /\ Holds("actions", KitOf(event[p]), "pdf_email_sent", JsTrue) => sent[p] = 0
      /\ (\E t \in {"users", "consents", "actions"} : ~HasRow(t, KitOf(event[p]))) =>
           sent[p] = 0
      /\ sent[p] <= 1

\* a trigger update on a ready kit_id has returned and published its one
\* notification
C10_Witness ==
  \E p \in Procs :
    /\ DispatchDone(p)
    /\ ROUTER_TOPIC_ARN
    /\ Ready(KitOf(event[p]))
    /\ sent[p] = 1
    /\ published[KitOf(event[p])] >= 1

\* where a request is while maybeSendPdfEmail runs
DispatcherPcs == {"mspe_user", "mspe_consent", "mspe_action", "publish"}

\* C12: the dispatcher is called only by updateActions with a truthy
\* appointment_made or updateConsents with a truthy toc_agreed, once, for the
\* kit_id of the body, after the update was sent, is committed (the row holds
\* the trigger field as true) and has returned 200; so never for users, reports
\* or kits, for a missing or falsy trigger field, or for a failed update.
C12_DispatchOnlyAfterTriggerUpdate ==
  \A p \in Procs :
    /\ pc[p] \in DispatcherPcs => calls[p] # <<>>
    /\ calls[p] # <<>> =>
         /\ \/ /\ handler[p] = "updateActions"
               /\ "appointment_made" \in DOMAIN event[p].body
               /\ Truthy(event[p].body["appointment_made"])
               /\ Holds("actions", KitOf(event[p]), "appointment_made", JsTrue)
            \/ /\ handler[p] = "updateConsents"
               /\ "toc_agreed" \in DOMAIN event[p].body
               /\ Truthy(event[p].body["toc_agreed"])
               /\ Holds("consents", KitOf(event[p]), "toc_agreed", JsTrue)
         /\ calls[p] = <<KitOf(event[p])>>
         /\ Sent(p, "UPDATE") # {}
         /\ sql[p][1].op = "UPDATE"
         /\ pc[p] \in DispatcherPcs => held[p].statusCode = 200 /\ held[p].ok
         /\ (pc[p] = "done" /\ raised[p] \in {"", "PublishError"}) =>
              result[p].statusCode = 200 /\ result[p].ok

\* updateConsents with toc_agreed: true has returned 200 after one call of the
\* dispatcher that went as far as reading the consents
C12_Witness ==
  \E p \in Procs :
    /\ pc[p] = "done"
    /\ handler[p] = "updateConsents"
    /\ calls[p] = <<KitOf(event[p])>>
    /\ "consent" \in observed[p]
    /\ result[p].statusCode = 200

\* C13: once the update of updateActions or updateConsents is committed and
\* the dispatcher called, whatever fails in the dispatcher (a read, the
\* publish), the handler returns the update's 200 ok: true and throws nothing.
C13_DispatcherFailureHidden ==
  \A p \in Procs :
    (pc[p] = "done" /\ calls[p] # <<>>) =>
      /\ result[p].kind = "response"
      /\ result[p].statusCode = 200
      /\ result[p].ok

(***************************************************************************)
(* Properties of the update endpoints under concurrent requests (Spec).    *)
(***************************************************************************)
\* C5: an update whose INSERT met the duplicate key (two first updates of one
\* kit_id raced, kit_id being unique) answers 409.
C5_DuplicateKeyIs409 ==
  \A p \in Procs :
    (pc[p] = "done" /\ handler[p] \in UpdateHandlers /\ raised[p] = "23505") =>
      /\ result[p].kind = "response"
      /\ result[p].statusCode = 409

\* the four readiness conditions, as observed[p] names them: the user row, the
\* consent row with toc_agreed true, the action row with appointment_made true
\* whose pdf_email_sent is not true
AllConditions == {"user", "consent", "action"}

\* C11: whenever a request publishes (or is about to publish) a send_pdf_email
\* notification, each readiness condition held in the tables at the moment its
\* dispatcher read it; and a dispatcher that found a condition failing
\* publishes nothing and raises no error: the handler returns the update's 200.
C11_PublishedOnlyWhenReady ==
  \A p \in Procs :
    /\ (pc[p] = "publish" \/ sent[p] > 0) => observed[p] = AllConditions
    /\ (pc[p] = "done" /\ calls[p] # <<>> /\ observed[p] # AllConditions) =>
         /\ sent[p] = 0
         /\ result[p].kind = "response"
         /\ result[p].statusCode = 200
         /\ result[p].ok

\* a request has published after its dispatcher read all conditions as holding,
\* while the other request's dispatcher has stopped at a failing condition
C11_Witness ==
  \E p, q \in Procs :
    /\ pc[p] = "done" /\ sent[p] = 1 /\ observed[p] = AllConditions
    /\ pc[q] = "done" /\ calls[q] # <<>> /\ observed[q] # AllConditions /\ sent[q] = 0

\* C18: at most one send_pdf_email notification is ever published for a
\* kit_id.
C18_AtMostOnePerKit == \A k \in KitIds : published[k] <= 1

\* C19: whatever the interleaving of concurrent updates of one kit_id, and
\* whether or not kit_id is declared unique, a table has at most one row per
\* kit_id.
C19_AtMostOneRowPerKit ==
  \A t \in TABLES : \A k \in KitIds : Len(RowsOf(tables[t], k)) <= 1

\* the response request p will return for its update, after the step
ResponseNext(p) == IF pc'[p] = "done" THEN result'[p] ELSE held'[p]

\* the step is the UPDATE of request p, executed without error and matching rows
UpdateStep(p) ==
  /\ pc[p] = "update"
  /\ pc'[p] \notin {"update", "insert"}
  /\ raised'[p] = ""

\* the step is the INSERT of request p, executed without error
InsertStep(p) ==
  /\ pc[p] = "insert"
  /\ pc'[p] # "insert"
  /\ raised'[p] = ""

C9_ErrorTaxonomy ==
  \A p \in Procs :
    (/\ pc[p] = "done"
     /\ handler[p] \in UpdateHandlers
     /\ raised[p] \notin {"", "PublishError"}
     /\ sql[p][Len(sql[p])].op \in {"UPDATE", "INSERT"}) =>
      /\ ~(result[p].kind = "response" /\ result[p].statusCode = 200)
      /\ raised[p] \in TypeErrors =>
           (result[p].kind = "response" /\ result[p].statusCode = 400)
      /\ raised[p] \in ConnectionErrors \cup {"42P01"} =>
           (result[p].kind = "response" /\ result[p].statusCode = 500)
      /\ raised[p] = "23505" =>
           (result[p].kind = "response" /\ result[p].statusCode = 409)
      /\ raised[p] \notin TypeErrors \cup ConnectionErrors \cup {"42P01", "23505"} =>
           \/ result[p].kind = "throw"
           \/ (result[p].kind = "response" /\ result[p].statusCode = 500)

(***************************************************************************)
(* Properties of one update with a rich body (SpecFields).                 *)
(***************************************************************************)
\* C6: the columns of the UPDATE and the INSERT an update sends are exactly the
\* supplied properties other than kit_id that are a letter or underscore
\* followed by letters, digits and underscores (the INSERT has kit_id besides);
\* the other properties are dropped without failing the request; if none
\* survives the update answers 400 and sends no statement.
C6_ColumnFilter ==
  \A p \in Procs :
    (pc[p] # "idle" /\ handler[p] \in UpdateHandlers /\ HasKit(p)) =>
      /\ \A i \in Sent(p, "UPDATE") :
           /\ sql[p][i].table = TableOf(handler[p])
           /\ sql[p][i].columns = Surviving(p)
      /\ \A i \in Sent(p, "INSERT") :
           /\ sql[p][i].table = TableOf(handler[p])
           /\ sql[p][i].columns = {"kit_id"} \cup Surviving(p)
      /\ Surviving(p) = {} =>
           /\ pc[p] = "done"
           /\ result[p].kind = "response"
           /\ result[p].statusCode = 400
           /\ sql[p] = <<>>
      /\ (Surviving(p) # {} /\ Unusable(p) = {}) => Sent(p, "UPDATE") # {}

\* { kit_id, status: "completed", "1bad": ..., "drop;table": ... } has updated
\* and inserted the report with the column status alone
C6_Witness ==
  \E p \in Procs :
    /\ UpdateDone(p)
    /\ handler[p] = "updateReports"
    /\ DOMAIN event[p].body = {"kit_id", "status", "1bad", "drop;table"}
    /\ Sent(p, "INSERT") # {}
    /\ result[p].statusCode = 200
    /\ result[p].created
    /\ RowsNow(p)[1].cols["status"] = JsStr("completed")

(***************************************************************************)
(* Properties of validation (SpecState).                                   *)
(***************************************************************************)
\* the event's body is no object, or has no kit_id that is a non-empty string
NoKit(e) ==
  \/ e.kind # "object"
  \/ "kit_id" \notin DOMAIN e.body
  \/ e.body["kit_id"].t # "string"
  \/ e.body["kit_id"].v = ""

\* the requests input validation is to turn away: Read without a key that is a
\* non-empty string, Write without one, List or Update with a body that does
\* not parse or without a kit_id that is a non-empty string, Update with no
\* surviving field or with an undefined or NaN value
Rejected(h, e) ==
  CASE h = "getState" -> e.q.t # "string" \/ e.q.v = ""
    [] h = "updateState" ->
         \/ e.kind # "object"
         \/ "key" \notin DOMAIN e.body
         \/ e.body["key"].t # "string"
         \/ e.body["key"].v = ""
    [] h \in ListHandlers -> NoKit(e)
    [] h \in UpdateHandlers ->
         \/ NoKit(e)
         \/ (DOMAIN e.body \ {"kit_id"}) \cap GrammarNames = {}
         \/ \E c \in (DOMAIN e.body \ {"kit_id"}) \cap GrammarNames :
              e.body[c] \in {JsUndefined, JsNaN}
    [] OTHER -> FALSE

\* C8: every request that validation turns away answers 400, having sent no
\* statement and published no notification.
C8_ValidationRejects ==
  \A p \in Procs :
    (pc[p] # "idle" /\ Rejected(handler[p], event[p])) =>
      /\ pc[p] = "done"
      /\ result[p].kind = "response"
      /\ result[p].statusCode = 400
      /\ sql[p] = <<>>
      /\ sent[p] = 0

(***************************************************************************)
(* Properties of requests about different kit_ids (SpecPair).              *)
(***************************************************************************)
\* what handler h answers on event e when it runs alone on a table whose rows
\* for the kit_id are rows
SoloResponse(h, e, rows) ==
  IF h \in ListHandlers THEN getByKitIdEnd(KitOf(e), rows)
  ELSE IF Len(rows) = 0 THEN UpdateOk(KitOf(e), 1, TRUE)
  ELSE UpdateOk(KitOf(e), Len(rows), FALSE)

\* the rows for the kit_id it then leaves
SoloRows(h, e, rows) ==
  IF h \in ListHandlers THEN rows
  ELSE IF Len(rows) = 0 THEN InsertRow(<<>>, TableOf(h), KitOf(e), e.body)
  ELSE UpdateRows(rows, KitOf(e), e.body)

\* C16: a list or update request that runs while requests about another kit_id
\* run answers what it answers alone on the rows its kit_id had when it was
\* invoked, and leaves for its kit_id the rows it leaves alone: whatever the
\* interleaving of the statements, responses and rows are those of either
\* sequential order.  (Tables compared kit_id by kit_id; the order of rows of
\* different kit_ids in a table follows the order of the INSERTs.)
C16_DifferentKitsIndependent ==
  \A p \in Procs :
    pc[p] = "done" =>
      /\ KitOf(event[p]) = KitFor(p)
      /\ result[p] = SoloResponse(handler[p], event[p], before[p])
      /\ RowsNow(p) = SoloRows(handler[p], event[p], before[p])

\* two updates of the reports of different kit_ids have both returned; one
\* inserted its row, the other updated the row it had
C16_Witness ==
  /\ pc[1] = "done" /\ handler[1] = "updateReports" /\ result[1].created
  /\ pc[2] = "done" /\ handler[2] = "updateReports" /\ ~result[2].created
  /\ result[2].updated = 1
  /\ Len(tables["reports"]) = 2
  /\ tables["reports"][1].kit_id = "xyz-789"

(***************************************************************************)
(* The workflow stages of one kit_id: two requests at a time, the updates   *)
(* of users, consents and actions, the topic set, the publish failing or   *)
(* not.                                                                    *)
(***************************************************************************)
StageProcs == {1, 2}

StageWorkload ==
  {Req("updateUsers", Event("object", JsUndefined, Body(TheKit, Field("email", JsStr("a@b.c")))))}
  \cup {Req("updateConsents", Event("object", JsUndefined, Body(TheKit, Field("toc_agreed", JsTrue))))}
  \cup {Req("updateActions", Event("object", JsUndefined, Body(TheKit, Field(c, JsTrue)))) :
          c \in {"appointment_made", "pdf_email_sent"}}

InitStages == InitWith({FALSE}, {TRUE})

NextStages ==
  \E p \in StageProcs :
    \/ Invoke(p, StageWorkload)
    \/ ExecUpdate(p)
    \/ ExecInsert(p)
    \/ ExecDispatchUser(p)
    \/ ExecDispatchConsent(p)
    \/ ExecDispatchAction(p)
    \/ ExecPublish(p)
    \/ PublishFails(p)
    \/ Respond(p)

SpecStages == InitStages /\ [][NextStages]_vars

\* request p is an update by handler h that set column c of kit to true and
\* has returned 200, no publish of its having failed
StageDone(p, h, c, kit) ==
  /\ pc[p] = "done"
  /\ handler[p] = h
  /\ KitOf(event[p]) = kit
  /\ Get(event[p].body, c) = JsTrue
  /\ result[p].kind = "response"
  /\ result[p].statusCode = 200
  /\ raised[p] = ""

\* kit has its user row and its fields are as the two calls left them: no
\* request has changed toc_agreed or appointment_made, none has set
\* pdf_email_sent to true
StagesKept(kit) ==
  /\ HasRow("users", kit)
  /\ \A i \in DOMAIN RowsOf(tables["consents"], kit) :
       RowsOf(tables["consents"], kit)[i].cols["toc_agreed"] = JsTrue
  /\ \A i \in DOMAIN RowsOf(tables["actions"], kit) :
       /\ RowsOf(tables["actions"], kit)[i].cols["appointment_made"] = JsTrue
       /\ RowsOf(tables["actions"], kit)[i].cols["pdf_email_sent"] # JsTrue

\* C21: for a kit_id with a user row whose pdf_email_sent is never set to true,
\* once an updateActions call with appointment_made = true and an
\* updateConsents call with toc_agreed = true have both returned 200, in either
\* order or concurrently, no other request having changed those fields, the
\* topic being configured and no publish failing, at least one send_pdf_email
\* notification has been published for the kit_id.
C21_StagesConverge ==
  \A p, q \in Procs : \A kit \in KitIds :
    /\ ROUTER_TOPIC_ARN
    /\ StageDone(p, "updateActions", "appointment_made", kit)
    /\ StageDone(q, "updateConsents", "toc_agreed", kit)
    /\ StagesKept(kit)
    => published[kit] >= 1

\* the actions update went first and its dispatcher found no consent; the
\* consents update that followed published
C21_Witness ==
  \E p, q \in Procs :
    /\ ROUTER_TOPIC_ARN
    /\ StageDone(p, "updateActions", "appointment_made", "abc-123")
    /\ StageDone(q, "updateConsents", "toc_agreed", "abc-123")
    /\ StagesKept("abc-123")
    /\ "consent" \notin observed[p]
    /\ sent[p] = 0
    /\ sent[q] = 1
    /\ published["abc-123"] = 1

(***************************************************************************)
(* The webhook's answers.                                                  *)
(***************************************************************************)
HookDone(p) == pc[p] = "done" /\ handler[p] = "webhookActions"

\* the webhook's input is one it turns away: a body that is no JSON object, an
\* invitee.created payload without an email that is a string, a generic
\* update without a kit_id
HookRejected(e) ==
  \/ parseJsonBody(e).null
  \/ /\ IsInviteeCreated(e.body)
     /\ ~Truthy(PayloadEmail(e.body)) \/ ~IsString(PayloadEmail(e.body))
  \/ /\ ~IsInviteeCreated(e.body)
     /\ ~Truthy(Get(e.body, "kit_id"))

\* C14: webhookActions returns statusCode 200 and never throws, whatever the
\* input and whichever collaborator fails: a malformed body, a payload without
\* email, an unknown email, a database error in any of its queries (guest
\* lookups and dispatcher reads included), a publish error, a rejected generic
\* update, a success; a rejected input and a database error give ok: false.
C14_WebhookAlways200 ==
  \A p \in Procs :
    HookDone(p) =>
      /\ result[p].kind = "response"
      /\ result[p].statusCode = 200
      /\ HookRejected(event[p]) => ~result[p].ok
      /\ raised[p] \in DriverErrors \cup {"23505", "42703", "22P02"} => ~result[p].ok
      /\ raised[p] = "PublishError" => result[p].ok

\* a read of the dispatcher failed under the webhook and the answer is 200, ok: false
C14_Witness ==
  \E p \in Procs :
    /\ HookDone(p)
    /\ ROUTER_TOPIC_ARN
    /\ calls[p] # <<>>
    /\ raised[p] \in DriverErrors
    /\ result[p].statusCode = 200
    /\ ~result[p].ok

\* the emails of an invitee.created body: the invitee's and the guests' that
\* are strings
HookEmails(body) ==
  {PayloadEmail(body).v}
    \cup {PayloadGuests(body)[i].v :
            i \in {j \in DOMAIN PayloadGuests(body) :
                     Truthy(PayloadGuests(body)[j]) /\ IsString(PayloadGuests(body)[j])}}

\* the kit_ids the emails of the body resolve to in users
HookKits(body) ==
  {r.kit_id : r \in UNION {Range(UsersByEmail(tables["users"], m)) : m \in HookEmails(body)}}

\* an invitee.created webhook whose invitee resolved has answered ok: true
HookMarkedDone(p) ==
  /\ HookDone(p)
  /\ loc[p].mode = "invitee"
  /\ result[p].ok

\* every kit_id the emails resolve to has an actions row with appointment_made true
HookMarks(p) ==
  \A k \in HookKits(event[p].body) : Holds("actions", k, "appointment_made", JsTrue)

\* the dispatcher was called once for every kit_id the emails resolve to
HookDispatchesOnce(p) ==
  \A k \in HookKits(event[p].body) :
    Cardinality({i \in DOMAIN calls[p] : calls[p][i] = k}) = 1

\* C15: after an invitee.created webhook whose invitee email resolves to a
\* kit_id, actions holds a row with appointment_made = true for that kit_id
\* and for the kit_id of every guest email that resolves, and the dispatcher
\* was triggered exactly once for each of these kit_ids.
C15_MarksAndDispatchesOnce ==
  \A p \in Procs : HookMarkedDone(p) => HookMarks(p) /\ HookDispatchesOnce(p)


====
